---- MODULE Spec2Model ----
(***************************************************************************)
(* Model of the CSV ingestion and graph reconciliation code of             *)
(* src/db.py (class Database) and of its caller in src/app.py.             *)
(*                                                                         *)
(* Text is modelled as a sequence of characters, a character being a       *)
(* one-element string; the byte order mark U+FEFF is the token BOM.  A     *)
(* property value of the graph store is a tagged record: StrV(s), IntV(n),   *)
(* the absent value being None.                                            *)
(***************************************************************************)
EXTENDS Integers, Sequences, FiniteSets, TLC

VARIABLES
    nodes,        \* the store's nodes: per label, in creation order, [label, props]
    edges,        \* the store's relationships: a bag of [type, src, dst]
    constraints,  \* labels whose uniqueness constraint exists in the store
    last,         \* what the last call did: its operation, its arguments, its outcome
    arg           \* the argument of the pure function under check (the pure specifications)

vars == <<nodes, edges, constraints, last, arg>>

(***************************************************************************)
(* Bounds of the model.                                                    *)
(***************************************************************************)
MaxLen == 4       \* longest content given to _determine_delimiter
MaxHeaders == 5   \* largest header set given to the classifier
MaxNodes == 3     \* most nodes the store holds
MaxEdges == 2     \* most relationships the store holds

(***************************************************************************)
(* Text.                                                                   *)
(***************************************************************************)
BOM == "BOM"
Range(s) == {s[i] : i \in 1..Len(s)}
BoundedSeq(S, n) == UNION {[1..k -> S] : k \in 0..n}

\* str.splitlines(): the line boundaries of the alphabet used are \n, \r and \r\n
LineBreaks == {"\n", "\r"}

\* the index of the first line boundary of s, 0 when it has none
FirstBreak(s) ==
    IF \E i \in 1..Len(s) : s[i] \in LineBreaks
    THEN CHOOSE i \in 1..Len(s) : s[i] \in LineBreaks /\ \A j \in 1..(i-1) : s[j] \notin LineBreaks
    ELSE 0

RECURSIVE splitlines(_)
splitlines(s) ==
    IF s = <<>> THEN <<>>
    ELSE LET k == FirstBreak(s) IN
         IF k = 0 THEN <<s>>
         ELSE LET e == IF s[k] = "\r" /\ k < Len(s) /\ s[k+1] = "\n" THEN k + 1 ELSE k
              IN  <<SubSeq(s, 1, k-1)>> \o splitlines(SubSeq(s, e+1, Len(s)))

\* Database._determine_delimiter, checking the whole content instead of its first line
determine_delimiter_whole(content) ==
    [raised |-> FALSE,
     value |-> IF "\t" \in Range(content) THEN "\t"
               ELSE IF ";" \in Range(content) THEN ";"
               ELSE IF "," \in Range(content) THEN ","
               ELSE "\t"]

\* Database._determine_delimiter: [raised, value]
determine_delimiter(content) ==
    IF content # <<>> /\ splitlines(content) = <<>>
    THEN [raised |-> TRUE, value |-> "IndexError"]
    ELSE LET first_line == IF content # <<>> THEN splitlines(content)[1] ELSE <<>> IN
         [raised |-> FALSE,
          value |-> IF "\t" \in Range(first_line) THEN "\t"
                    ELSE IF ";" \in Range(first_line) THEN ";"
                    ELSE IF "," \in Range(first_line) THEN ","
                    ELSE "\t"]

(***************************************************************************)
(* The words of the program: property names, header names, aliases.        *)
(***************************************************************************)
s_nombreCompleto == <<"n", "o", "m", "b", "r", "e", "C", "o", "m", "p", "l", "e", "t", "o">>
s_tipoLector == <<"t", "i", "p", "o", "L", "e", "c", "t", "o", "r">>
s_id == <<"i", "d">>
s_csvId == <<"c", "s", "v", "I", "d">>
s_nacionalidad == <<"n", "a", "c", "i", "o", "n", "a", "l", "i", "d", "a", "d">>
s_titulo == <<"t", "i", "t", "u", "l", "o">>
s_generoLiterario == <<"g", "e", "n", "e", "r", "o", "L", "i", "t", "e", "r", "a", "r", "i", "o">>
s_anoPublicacion == <<"a", "ñ", "o", "P", "u", "b", "l", "i", "c", "a", "c", "i", "o", "n">>
s_nombre == <<"n", "o", "m", "b", "r", "e">>
s_ubicacion == <<"u", "b", "i", "c", "a", "c", "i", "o", "n">>
s_tematica == <<"t", "e", "m", "a", "t", "i", "c", "a">>
s_idAutor == <<"i", "d", "A", "u", "t", "o", "r">>
s_IdAutor == <<"I", "d", "A", "u", "t", "o", "r">>
s_Id == <<"I", "d">>
s_idlibro == <<"i", "d", "l", "i", "b", "r", "o">>
s_IdLibro == <<"I", "d", "L", "i", "b", "r", "o">>
s_idLibro == <<"i", "d", "L", "i", "b", "r", "o">>
s_idPersona == <<"i", "d", "P", "e", "r", "s", "o", "n", "a">>
s_IdPersona == <<"I", "d", "P", "e", "r", "s", "o", "n", "a">>
s_idClub == <<"i", "d", "C", "l", "u", "b">>
s_IdClub == <<"I", "d", "C", "l", "u", "b">>
s_tipolector == <<"t", "i", "p", "o", "l", "e", "c", "t", "o", "r">>
s_idautor == <<"i", "d", "a", "u", "t", "o", "r">>
s_genero == <<"g", "e", "n", "e", "r", "o">>
s_anno == <<"a", "n", "n", "o">>
s_idclub == <<"i", "d", "c", "l", "u", "b">>
s_autor_id == <<"a", "u", "t", "o", "r", "_", "i", "d">>
s_autorid == <<"a", "u", "t", "o", "r", "i", "d">>
s_libro_id == <<"l", "i", "b", "r", "o", "_", "i", "d">>
s_libroid == <<"l", "i", "b", "r", "o", "i", "d">>
s_persona_id == <<"p", "e", "r", "s", "o", "n", "a", "_", "i", "d">>
s_personaid == <<"p", "e", "r", "s", "o", "n", "a", "i", "d">>
s_idpersona == <<"i", "d", "p", "e", "r", "s", "o", "n", "a">>
s_club_id == <<"c", "l", "u", "b", "_", "i", "d">>
s_clubid == <<"c", "l", "u", "b", "i", "d">>
s_otro == <<"o", "t", "r", "o">>
s_Nombre == <<"N", "o", "m", "b", "r", "e">>
s_TipoLector == <<"T", "i", "p", "o", "L", "e", "c", "t", "o", "r">>
s_Nacionalidad == <<"N", "a", "c", "i", "o", "n", "a", "l", "i", "d", "a", "d">>
s_Titulo == <<"T", "i", "t", "u", "l", "o">>
s_Genero == <<"G", "e", "n", "e", "r", "o">>
s_Anno == <<"A", "n", "n", "o">>
s_Ubicacion == <<"U", "b", "i", "c", "a", "c", "i", "o", "n">>
s_Tematica == <<"T", "e", "m", "a", "t", "i", "c", "a">>

(***************************************************************************)
(* Values: a string, an integer, or None (Python) / null (Cypher).         *)
(***************************************************************************)
StrV(s) == [t |-> "str", v |-> s]
IntV(n) == [t |-> "int", v |-> n]
None == [t |-> "none"]

(***************************************************************************)
(* Python's str methods and int(), on the alphabet of the model.           *)
(***************************************************************************)
Whitespace == {" ", "\t", "\n", "\r"}
Digits == <<"0", "1", "2", "3", "4", "5", "6", "7", "8", "9">>
UpperCase == <<"A", "B", "C", "D", "E", "F", "G", "H", "I", "J", "K", "L", "M",
               "N", "O", "P", "Q", "R", "S", "T", "U", "V", "W", "X", "Y", "Z">>
LowerCase == <<"a", "b", "c", "d", "e", "f", "g", "h", "i", "j", "k", "l", "m",
               "n", "o", "p", "q", "r", "s", "t", "u", "v", "w", "x", "y", "z">>

IsDigit(c) == c \in Range(Digits)
DigitVal(c) == (CHOOSE i \in 1..Len(Digits) : Digits[i] = c) - 1

\* str.replace(old, ''), old one character
RemoveChar(s, old) == SelectSeq(s, LAMBDA c : c # old)

\* str.strip()
RECURSIVE lstrip(_)
lstrip(s) == IF s # <<>> /\ Head(s) \in Whitespace THEN lstrip(Tail(s)) ELSE s
RECURSIVE rstrip(_)
rstrip(s) ==
    IF s # <<>> /\ s[Len(s)] \in Whitespace THEN rstrip(SubSeq(s, 1, Len(s) - 1)) ELSE s
strip(s) == rstrip(lstrip(s))

\* str.lower()
LowerChar(c) ==
    IF c \in Range(UpperCase)
    THEN LowerCase[CHOOSE i \in 1..Len(UpperCase) : UpperCase[i] = c]
    ELSE c
lower(s) == [i \in 1..Len(s) |-> LowerChar(s[i])]

\* str.split() without a separator: the maximal runs of non-whitespace characters
RECURSIVE split(_)
split(s) ==
    LET t == lstrip(s) IN
    IF t = <<>> THEN <<>>
    ELSE LET k == IF \E i \in 1..Len(t) : t[i] \in Whitespace
                  THEN (CHOOSE i \in 1..Len(t) :
                            t[i] \in Whitespace /\ \A j \in 1..(i-1) : t[j] \notin Whitespace) - 1
                  ELSE Len(t)
         IN  <<SubSeq(t, 1, k)>> \o split(SubSeq(t, k + 1, Len(t)))

\* ''.join(parts)
RECURSIVE join(_)
join(parts) == IF parts = <<>> THEN <<>> ELSE Head(parts) \o join(Tail(parts))

\* norm, without the lower-casing
norm_keep_case(s) == join(split(strip(RemoveChar(s, BOM))))

\* norm (db.py:167): ''.join((s or '').replace('U+FEFF', '').strip().lower().split())
norm(s) == join(split(lower(strip(RemoveChar(s, BOM)))))

\* the value of a run of decimal digits
RECURSIVE DecimalValue(_)
DecimalValue(ds) ==
    IF ds = <<>> THEN 0
    ELSE 10 * DecimalValue(SubSeq(ds, 1, Len(ds) - 1)) + DigitVal(ds[Len(ds)])

\* int(s) of a string: surrounding whitespace, a sign, digits with single underscores
\* between them; None stands for the ValueError
py_int(s) ==
    LET t    == strip(s)
        sgn  == t # <<>> /\ Head(t) \in {"+", "-"}
        body == IF sgn THEN Tail(t) ELSE t
        ok   == /\ body # <<>>
                /\ \A i \in 1..Len(body) : IsDigit(body[i]) \/ body[i] = "_"
                /\ body[1] # "_" /\ body[Len(body)] # "_"
                /\ \A i \in 1..(Len(body) - 1) : ~(body[i] = "_" /\ body[i+1] = "_")
        mag  == DecimalValue(RemoveChar(body, "_"))
    IN  IF ~ok THEN None
        ELSE IF sgn /\ Head(t) = "-" THEN IntV(0 - mag) ELSE IntV(mag)

\* int(x) of a field, with 0 for a field that is no integer
int_or_zero(x) ==
    IF x.t = "str" /\ py_int(x.v) # None THEN py_int(x.v) ELSE IF x.t = "int" THEN x ELSE IntV(0)

\* int(x) of a field: a TypeError for None, also None here
int(x) == IF x.t = "str" THEN py_int(x.v) ELSE IF x.t = "int" THEN x ELSE None

\* safe_int, without the strip and on a parser that takes no surrounding whitespace
safe_int_nostrip(value) ==
    IF value.t = "str" /\ value.v = strip(value.v) THEN py_int(value.v) ELSE None

\* safe_int (db.py:170): int(str(value).strip()), None on any exception; str(None) is
\* 'None', which is no integer
safe_int(value) ==
    IF value.t = "str" THEN py_int(strip(value.v))
    ELSE IF value.t = "int" THEN value
    ELSE None

\* Cypher's toString of an integer
RECURSIVE NatToStr(_)
NatToStr(n) == IF n < 10 THEN <<Digits[n + 1]>> ELSE NatToStr(n \div 10) \o <<Digits[(n % 10) + 1]>>
IntToStr(n) == IF n < 0 THEN <<"-">> \o NatToStr(0 - n) ELSE NatToStr(n)

\* Cypher's toString(x): null for null
toString(x) ==
    IF x.t = "int" THEN StrV(IntToStr(x.v)) ELSE x

\* Cypher's toInteger(x) of a string: a sign and decimal digits, else null
toInteger(x) ==
    IF x.t = "int" THEN x
    ELSE IF x.t = "none" THEN None
    ELSE LET t    == x.v
             sgn  == t # <<>> /\ Head(t) \in {"+", "-"}
             body == IF sgn THEN Tail(t) ELSE t
         IN  IF body = <<>> \/ \E i \in 1..Len(body) : ~IsDigit(body[i]) THEN None
             ELSE IF sgn /\ Head(t) = "-" THEN IntV(0 - DecimalValue(body))
             ELSE IntV(DecimalValue(body))

(***************************************************************************)
(* csv.DictReader(io.StringIO(content), delimiter=delimiter), on contents  *)
(* without quote characters and without carriage returns.                  *)
(***************************************************************************)
\* s cut at every occurrence of the character d
RECURSIVE SplitOn(_, _)
SplitOn(s, d) ==
    IF \E i \in 1..Len(s) : s[i] = d
    THEN LET k == CHOOSE i \in 1..Len(s) : s[i] = d /\ \A j \in 1..(i-1) : s[j] # d
         IN  <<SubSeq(s, 1, k - 1)>> \o SplitOn(SubSeq(s, k + 1, Len(s)), d)
    ELSE <<s>>

\* the lines io.StringIO yields, without their terminator
StringIOLines(content) ==
    LET pieces == SplitOn(content, "\n") IN
    IF pieces[Len(pieces)] = <<>> THEN SubSeq(pieces, 1, Len(pieces) - 1) ELSE pieces

\* csv.reader: one list of fields per line, the empty list for an empty line
csv_reader(content, delimiter) ==
    LET lines == StringIOLines(content) IN
    [i \in 1..Len(lines) |-> IF lines[i] = <<>> THEN <<>> ELSE SplitOn(lines[i], delimiter)]

\* DictReader.fieldnames: the first row, None when there is no row
fieldnames_of(rows) == IF rows = <<>> THEN <<>> ELSE rows[1]

\* the last position of key k in the sequence ks
LastIndex(ks, k) == CHOOSE i \in 1..Len(ks) : ks[i] = k /\ \A j \in (i+1)..Len(ks) : ks[j] # k

\* DictReader.__next__: dict(zip(fieldnames, row)), restval None for the missing fields
RowDict(fieldnames, row) ==
    [k \in Range(fieldnames) |->
        LET i == LastIndex(fieldnames, k) IN
        IF i <= Len(row) THEN StrV(row[i]) ELSE None]

\* the rows DictReader yields: the empty rows are skipped
DictRows(rows) ==
    LET data == SelectSeq(Tail(rows), LAMBDA r : r # <<>>) IN
    [i \in 1..Len(data) |-> RowDict(rows[1], data[i])]

\* header_map (db.py:193): {norm(h): h for h in reader.fieldnames}, the last one wins
header_map_of(fieldnames) ==
    [n \in {norm(fieldnames[i]) : i \in 1..Len(fieldnames)} |->
        fieldnames[CHOOSE i \in 1..Len(fieldnames) :
                      /\ norm(fieldnames[i]) = n
                      /\ \A j \in (i+1)..Len(fieldnames) : norm(fieldnames[j]) # n]]

(***************************************************************************)
(* The classification of a file by its headers (db.py:198-442).            *)
(***************************************************************************)
\* find_header (db.py:312): the original header of the first name present, else None
RECURSIVE find_header(_, _, _)
find_header(possible_names, headers, header_map) ==
    IF possible_names = <<>> THEN None
    ELSE IF Head(possible_names) \in headers THEN StrV(header_map[Head(possible_names)])
    ELSE find_header(Tail(possible_names), headers, header_map)

\* the truth value Python gives a header or None
Truthy(x) == x.t = "str" /\ x.v # <<>>

autor_names == <<s_idautor, s_autor_id, s_autorid>>
libro_names == <<s_idlibro, s_libro_id, s_libroid>>
club_names == <<s_idclub, s_club_id, s_clubid>>
persona_libro_names == <<s_id, s_persona_id, s_personaid, s_idpersona>>
persona_club_names == <<s_idpersona, s_persona_id, s_personaid, s_id>>

\* the classification, with Persona->Libro tested before Autor->Libro
Classify_persona_first(headers, header_map) ==
    LET has(names) == Truthy(find_header(names, headers, header_map)) IN
    IF {s_id, s_nombre, s_tipolector} \subseteq headers THEN "Persona"
    ELSE IF {s_idautor, s_nombre, s_nacionalidad} \subseteq headers THEN "Autor"
    ELSE IF {s_idlibro, s_titulo, s_genero, s_anno} \subseteq headers THEN "Libro"
    ELSE IF {s_idclub, s_nombre, s_ubicacion, s_tematica} \subseteq headers THEN "Club"
    ELSE IF has(persona_libro_names) /\ has(libro_names) THEN "Persona->Libro"
    ELSE IF has(autor_names) /\ has(libro_names) THEN "Autor->Libro"
    ELSE IF has(club_names) /\ has(libro_names) THEN "Club->Libro"
    ELSE IF has(persona_club_names) /\ has(club_names) THEN "Persona->Club"
    ELSE "Unrecognized"

\* the branch of cargar_datos_manualmente a file takes
Classify(headers, header_map) ==
    LET has(names) == Truthy(find_header(names, headers, header_map)) IN
    IF {s_id, s_nombre, s_tipolector} \subseteq headers THEN "Persona"
    ELSE IF {s_idautor, s_nombre, s_nacionalidad} \subseteq headers THEN "Autor"
    ELSE IF {s_idlibro, s_titulo, s_genero, s_anno} \subseteq headers THEN "Libro"
    ELSE IF {s_idclub, s_nombre, s_ubicacion, s_tematica} \subseteq headers THEN "Club"
    ELSE IF has(autor_names) /\ has(libro_names) THEN "Autor->Libro"
    ELSE IF has(persona_libro_names) /\ has(libro_names) THEN "Persona->Libro"
    ELSE IF has(club_names) /\ has(libro_names) THEN "Club->Libro"
    ELSE IF has(persona_club_names) /\ has(club_names) THEN "Persona->Club"
    ELSE "Unrecognized"

(***************************************************************************)
(* The graph store: what the Cypher statements of db.py do to it.          *)
(* nodes[label] holds the nodes of a label in creation order, a node being *)
(* [label, props]; a node is named by its label and its place there.       *)
(* edges is a bag of [type, src, dst], src and dst being places under the  *)
(* two labels the type joins: the store may hold an edge more than once.   *)
(* A write transaction yields [ok, ...]; when it fails (ok FALSE) it is    *)
(* rolled back and the exception reaches the caller of execute_write.      *)
(***************************************************************************)
Labels == {"Persona", "Autor", "Libro", "Club"}
NoNodes == [l \in Labels |-> <<>>]
NoEdges == [e \in {} |-> 0]
NoProps == [k \in {} |-> None]

\* the number of nodes of every label, and of all
CountByLabel(ns) == [l \in Labels |-> Len(ns[l])]
NodeCount(ns) == Len(ns["Persona"]) + Len(ns["Autor"]) + Len(ns["Libro"]) + Len(ns["Club"])

\* the number of relationships, each counted as often as the store holds it
RECURSIVE SumOver(_, _)
SumOver(es, S) ==
    IF S = {} THEN 0
    ELSE LET e == CHOOSE x \in S : TRUE IN es[e] + SumOver(es, S \ {e})
EdgeCount(es) == SumOver(es, DOMAIN es)

\* n.k, null when the node has no such property
Prop(n, k) == IF k \in DOMAIN n.props THEN n.props[k] ELSE None

\* SET n = $props: the map replaces the properties of the node
SetProps_replace(props, bag) == [k \in {x \in DOMAIN bag : bag[x] # None} |-> bag[k]]

\* SET n += $props: the keys of the map are overwritten or added, a null removes the
\* key, every other property stays
SetProps(props, bag) ==
    [k \in ((DOMAIN props) \ {x \in DOMAIN bag : bag[x] = None})
            \cup {x \in DOMAIN bag : bag[x] # None} |->
        IF k \in DOMAIN bag THEN bag[k] ELSE props[k]]

\* the property each uniqueness constraint of _crear_esquema is on (db.py:138-140)
UniqueKey ==
    [Persona |-> s_nombreCompleto, Libro |-> s_titulo, Autor |-> s_nombreCompleto]

\* two nodes of the label carry the same value of its unique property
HasDuplicates(ns, label) ==
    \E i, j \in 1..Len(ns[label]) :
        /\ i < j
        /\ Prop(ns[label][i], UniqueKey[label]) # None
        /\ Prop(ns[label][i], UniqueKey[label]) = Prop(ns[label][j], UniqueKey[label])

\* the store refuses a commit that breaks a constraint it holds
Violates(ns, cons) == \E label \in cons : HasDuplicates(ns, label)

\* CREATE (n:label) SET n += $props  /  SET n.k = $k, ...
CreateNode(ns, cons, label, bag) ==
    LET new == [ns EXCEPT ![label] =
                    Append(@, [label |-> label, props |-> SetProps(NoProps, bag)])]
    IN  IF Violates(new, cons)
        THEN [ok |-> FALSE, nodes |-> ns, touched |-> {}]
        ELSE [ok |-> TRUE, nodes |-> new, touched |-> {Len(new[label])}]

\* MERGE (n:label {key: $props.key}) SET n += $props, creating a node also when one matches
MergeNode_always_create(ns, cons, label, key, bag) ==
    IF key \notin DOMAIN bag \/ bag[key] = None
    THEN [ok |-> FALSE, nodes |-> ns, touched |-> {}]
    ELSE CreateNode(ns, cons, label, bag)

\* MERGE (n:label {key: $props.key}) SET n += $props
MergeNode(ns, cons, label, key, bag) ==
    IF key \notin DOMAIN bag \/ bag[key] = None
    THEN \* Cannot merge node using null property value
         [ok |-> FALSE, nodes |-> ns, touched |-> {}]
    ELSE LET old     == ns[label]
             found   == {i \in 1..Len(old) : Prop(old[i], key) = bag[key]}
             base    == IF found = {}
                        THEN Append(old, [label |-> label, props |-> (key :> bag[key])])
                        ELSE old
             touched == IF found = {} THEN {Len(base)} ELSE found
             new     == [ns EXCEPT ![label] =
                            [i \in 1..Len(base) |->
                                IF i \in touched
                                THEN [base[i] EXCEPT !.props = SetProps(@, bag)]
                                ELSE base[i]]]
         IN  IF Violates(new, cons)
             THEN [ok |-> FALSE, nodes |-> ns, touched |-> {}]
             ELSE [ok |-> TRUE, nodes |-> new, touched |-> touched]

\* coalesce(n.k1, n.k2, ...): the first property that is not null
RECURSIVE coalesce(_, _)
coalesce(n, keys) ==
    IF keys = <<>> THEN None
    ELSE IF Prop(n, Head(keys)) # None THEN Prop(n, Head(keys))
    ELSE coalesce(n, Tail(keys))

\* a = b in a WHERE clause: a comparison with null does not hold
CypherEq(a, b) == a # None /\ b # None /\ a = b

\* CREATE (a)-[:type]->(b) for every pair: an edge is added also when one exists
RECURSIVE CreateEdges(_, _, _)
CreateEdges(es, type, pairs) ==
    IF pairs = {} THEN es
    ELSE LET p == CHOOSE x \in pairs : TRUE
             e == [type |-> type, src |-> p[1], dst |-> p[2]]
         IN  CreateEdges(IF e \in DOMAIN es THEN [es EXCEPT ![e] = @ + 1] ELSE es @@ (e :> 1),
                         type, pairs \ {p})

\* MERGE (a)-[:type]->(b) for every pair: an edge is added only where none exists
RECURSIVE MergeEdges(_, _, _)
MergeEdges(es, type, pairs) ==
    IF pairs = {} THEN es
    ELSE LET p == CHOOSE x \in pairs : TRUE
             e == [type |-> type, src |-> p[1], dst |-> p[2]]
         IN  MergeEdges(IF e \in DOMAIN es THEN es ELSE es @@ (e :> 1), type, pairs \ {p})

\* the labels, the identifier properties and the relationship type of each kind of
\* relationship file (db.py:334-339, 365-370, 396-401, 427-432)
RelConfig ==
    [tipo \in {"Autor->Libro", "Persona->Libro", "Club->Libro", "Persona->Club"} |->
        CASE tipo = "Autor->Libro" ->
               [from_label |-> "Autor", to_label |-> "Libro", rel_type |-> "ESCRIBIO",
                from_keys |-> <<s_csvId, s_idAutor, s_IdAutor, s_id, s_Id>>,
                to_keys |-> <<s_csvId, s_idlibro, s_IdLibro, s_id, s_Id>>]
          [] tipo = "Persona->Libro" ->
               [from_label |-> "Persona", to_label |-> "Libro", rel_type |-> "LEE",
                from_keys |-> <<s_csvId, s_idPersona, s_IdPersona, s_id, s_Id>>,
                to_keys |-> <<s_csvId, s_idlibro, s_IdLibro, s_id, s_Id>>]
          [] tipo = "Club->Libro" ->
               [from_label |-> "Club", to_label |-> "Libro", rel_type |-> "RECOMIENDA",
                from_keys |-> <<s_csvId, s_idClub, s_IdClub, s_id, s_Id>>,
                to_keys |-> <<s_csvId, s_idlibro, s_IdLibro, s_id, s_Id>>]
          [] OTHER ->
               [from_label |-> "Persona", to_label |-> "Club", rel_type |-> "PERTENECE_A",
                from_keys |-> <<s_csvId, s_idPersona, s_IdPersona, s_id, s_Id>>,
                to_keys |-> <<s_csvId, s_idClub, s_IdClub, s_id, s_Id>>]]

\* MATCH (n:label) WHERE toString(coalesce(n.k1, ...)) = toString($id)
MatchByCoalesce(ns, label, keys, id) ==
    {i \in 1..Len(ns[label]) : CypherEq(toString(coalesce(ns[label][i], keys)), toString(id))}

\* MATCH (a:from) WHERE ... MATCH (b:to) WHERE ... MERGE (a)-[:type]->(b) RETURN 1 AS ok:
\* the edges, and the number of records returned (one per pair matched)
RelQuery(ns, es, cfg, from_id, to_id) ==
    LET A == MatchByCoalesce(ns, cfg.from_label, cfg.from_keys, from_id)
        B == MatchByCoalesce(ns, cfg.to_label, cfg.to_keys, to_id)
    IN  [edges |-> MergeEdges(es, cfg.rel_type, A \X B),
         records |-> Cardinality(A) * Cardinality(B)]

\* _crear_esquema (db.py:136): the three constraints in turn, each in a transaction of its
\* own; creating a constraint the data already breaks fails, one that exists is kept
RECURSIVE crear_esquema_from(_, _, _)
crear_esquema_from(ns, cons, todo) ==
    IF todo = <<>> THEN [ok |-> TRUE, constraints |-> cons]
    ELSE IF Head(todo) \in cons THEN crear_esquema_from(ns, cons, Tail(todo))
    ELSE IF HasDuplicates(ns, Head(todo)) THEN [ok |-> FALSE, constraints |-> cons]
    ELSE crear_esquema_from(ns, cons \cup {Head(todo)}, Tail(todo))

crear_esquema(ns, cons) == crear_esquema_from(ns, cons, <<"Persona", "Libro", "Autor">>)

(***************************************************************************)
(* cargar_datos_manualmente (db.py:162-448).  The state threaded through   *)
(* the files and rows is st = [nodes, edges, summary, trace, raised]:      *)
(* summary is created_summary, trace has one event per file reached and    *)
(* per row reached (what was logged and done), raised says that an         *)
(* exception left the method.                                              *)
(***************************************************************************)
ZeroSummary == [Persona |-> 0, Autor |-> 0, Libro |-> 0, Club |-> 0, Relaciones |-> 0]

NodeTypes == Labels
RelTypes == {"Autor->Libro", "Persona->Libro", "Club->Libro", "Persona->Club"}

\* one event of the trace, taken after the step: the file and row (row 0: the file
\* itself), the branch, what happened, the statement sent, the raw identifier of a node
\* row, the props or params built from the row, the places of the nodes the statement
\* wrote and those nodes, and the graph, the edge count and the counters after it
Event(f, r, n, tipo, outcome, query, raw_id, bag, touched, after, ns, es, summary) ==
    [file |-> f, row |-> r, nrows |-> n, tipo |-> tipo, outcome |-> outcome,
     query |-> query, raw_id |-> raw_id, bag |-> bag, touched |-> touched, after |-> after,
     graph |-> [nodes |-> ns, edges |-> es],
     edges |-> EdgeCount(es), summary |-> summary]

\* props of a Persona row (db.py:202-211)
PersonaProps(row, header_map) ==
    LET raw_id == row[header_map[s_id]]
        csv_id == safe_int(raw_id)
    IN  (IF csv_id # None THEN (s_csvId :> csv_id) ELSE NoProps)
        @@ (s_nombreCompleto :> row[header_map[s_nombre]])
        @@ (s_tipoLector :> row[header_map[s_tipolector]])
        @@ (s_id :> raw_id)

\* props of an Autor row (db.py:227-236)
AutorProps(row, header_map) ==
    LET raw_id == row[header_map[s_idautor]]
        csv_id == safe_int(raw_id)
    IN  (IF csv_id # None THEN (s_csvId :> csv_id) ELSE NoProps)
        @@ (s_nombreCompleto :> row[header_map[s_nombre]])
        @@ (s_nacionalidad :> row[header_map[s_nacionalidad]])
        @@ (header_map[s_idautor] :> raw_id)

\* props of a Libro row (db.py:252-267)
LibroProps(row, header_map) ==
    LET raw_id   == row[header_map[s_idlibro]]
        csv_id   == safe_int(raw_id)
        anno_int == safe_int(row[header_map[s_anno]])
    IN  (IF csv_id # None THEN (s_csvId :> csv_id) ELSE NoProps)
        @@ (IF anno_int # None THEN (s_anoPublicacion :> anno_int) ELSE NoProps)
        @@ (s_titulo :> row[header_map[s_titulo]])
        @@ (s_generoLiterario :> row[header_map[s_genero]])
        @@ (header_map[s_idlibro] :> raw_id)

\* props of a Club row (db.py:283-293)
ClubProps(row, header_map) ==
    LET raw_id == row[header_map[s_idclub]]
        csv_id == safe_int(raw_id)
    IN  (IF csv_id # None THEN (s_csvId :> csv_id) ELSE NoProps)
        @@ (s_nombre :> row[header_map[s_nombre]])
        @@ (s_ubicacion :> row[header_map[s_ubicacion]])
        @@ (s_tematica :> row[header_map[s_tematica]])
        @@ (header_map[s_idclub] :> raw_id)

\* the identifier column of a node file, by its normalized name
IdHeader == [Persona |-> s_id, Autor |-> s_idautor, Libro |-> s_idlibro, Club |-> s_idclub]

NodeProps(label, row, header_map) ==
    CASE label = "Persona" -> PersonaProps(row, header_map)
      [] label = "Autor" -> AutorProps(row, header_map)
      [] label = "Libro" -> LibroProps(row, header_map)
      [] OTHER -> ClubProps(row, header_map)

\* the statement of a node row: MERGE or CREATE (db.py:217, 242, 273, 301-304)
NodeQuery(label, props) ==
    IF label = "Club" /\ s_csvId \notin DOMAIN props THEN "CREATE" ELSE "MERGE"

\* the write of a node row that merges on csvId whenever the row has one
NodeWrite_surrogate_first(ns, cons, label, props) ==
    CASE s_csvId \in DOMAIN props -> MergeNode(ns, cons, label, s_csvId, props)
      [] label \in {"Persona", "Autor"} -> MergeNode(ns, cons, label, s_nombreCompleto, props)
      [] label = "Libro" -> MergeNode(ns, cons, label, s_titulo, props)
      [] OTHER -> CreateNode(ns, cons, label, props)

\* the write of a node row (db.py:218, 243, 274, 305)
NodeWrite(ns, cons, label, props) ==
    CASE label \in {"Persona", "Autor"} -> MergeNode(ns, cons, label, s_nombreCompleto, props)
      [] label = "Libro" -> MergeNode(ns, cons, label, s_titulo, props)
      [] label = "Club" /\ s_csvId \in DOMAIN props -> MergeNode(ns, cons, label, s_csvId, props)
      [] OTHER -> CreateNode(ns, cons, label, props)

\* one row of a node file, skipped like a relationship row when its identifier is no integer
NodeRow_skips_bad_id(st, f, r, n, label, row, header_map) ==
    LET raw_id == row[header_map[IdHeader[label]]]
        Written(props, query, w) ==
            IF s_csvId \notin DOMAIN props
            THEN [st EXCEPT !.trace = Append(@, Event(f, r, n, label, "invalid", "-", raw_id,
                                                      props, {}, {}, st.nodes, st.edges,
                                                      st.summary))]
            ELSE IF w.ok
            THEN [st EXCEPT !.nodes = w.nodes,
                            !.summary = [st.summary EXCEPT ![label] = @ + 1],
                            !.trace = Append(@, Event(f, r, n, label, "written", query, raw_id,
                                                      props, w.touched,
                                                      {w.nodes[label][i] : i \in w.touched},
                                                      w.nodes, st.edges,
                                                      [st.summary EXCEPT ![label] = @ + 1]))]
            ELSE [st EXCEPT !.raised = TRUE,
                            !.trace = Append(@, Event(f, r, n, label, "raised", query, raw_id,
                                                      props, {}, {}, st.nodes, st.edges,
                                                      st.summary))]
        Write(props) ==
            Written(props, NodeQuery(label, props),
                    NodeWrite(st.nodes, st.constraints, label, props))
    IN  Write(NodeProps(label, row, header_map))

\* one row of a node file, counted only when the write created a node
NodeRow_counts_created(st, f, r, n, label, row, header_map) ==
    LET raw_id == row[header_map[IdHeader[label]]]
        Counted(w) ==
            IF Len(w.nodes[label]) > Len(st.nodes[label])
            THEN [st.summary EXCEPT ![label] = @ + 1]
            ELSE st.summary
        Written(props, query, w) ==
            IF w.ok
            THEN [st EXCEPT !.nodes = w.nodes,
                            !.summary = Counted(w),
                            !.trace = Append(@, Event(f, r, n, label, "written", query, raw_id,
                                                      props, w.touched,
                                                      {w.nodes[label][i] : i \in w.touched},
                                                      w.nodes, st.edges, Counted(w)))]
            ELSE [st EXCEPT !.raised = TRUE,
                            !.trace = Append(@, Event(f, r, n, label, "raised", query, raw_id,
                                                      props, {}, {}, st.nodes, st.edges,
                                                      st.summary))]
        Write(props) ==
            Written(props, NodeQuery(label, props),
                    NodeWrite(st.nodes, st.constraints, label, props))
    IN  Write(NodeProps(label, row, header_map))

\* one row of a node file (db.py:200-219): the write is outside the try, so its
\* exception leaves the method
NodeRow(st, f, r, n, label, row, header_map) ==
    LET raw_id == row[header_map[IdHeader[label]]]
        Written(props, query, w) ==
            IF w.ok
            THEN [st EXCEPT !.nodes = w.nodes,
                            !.summary = [st.summary EXCEPT ![label] = @ + 1],
                            !.trace = Append(@, Event(f, r, n, label, "written", query, raw_id,
                                                      props, w.touched,
                                                      {w.nodes[label][i] : i \in w.touched},
                                                      w.nodes, st.edges,
                                                      [st.summary EXCEPT ![label] = @ + 1]))]
            ELSE [st EXCEPT !.raised = TRUE,
                            !.trace = Append(@, Event(f, r, n, label, "raised", query, raw_id,
                                                      props, {}, {}, st.nodes, st.edges,
                                                      st.summary))]
        Write(props) ==
            Written(props, NodeQuery(label, props),
                    NodeWrite(st.nodes, st.constraints, label, props))
    IN  Write(NodeProps(label, row, header_map))

\* the two endpoint columns of a relationship file (db.py:319-320, 350-351, 381-382, 412-413)
FromNames == [t \in RelTypes |->
    CASE t = "Autor->Libro" -> autor_names
      [] t = "Persona->Libro" -> persona_libro_names
      [] t = "Club->Libro" -> club_names
      [] OTHER -> persona_club_names]
ToNames == [t \in RelTypes |-> IF t = "Persona->Club" THEN club_names ELSE libro_names]

\* one row of a relationship file, counted whether or not the statement returned records
RelRow_counts_every_row(st, f, r, n, tipo, row, headers, header_map) ==
    LET Resolved(params, q) ==
            [st EXCEPT !.edges = q.edges,
                       !.summary = [st.summary EXCEPT !.Relaciones = @ + 1],
                       !.trace = Append(@, Event(f, r, n, tipo,
                                                 IF q.records > 0 THEN "resolved"
                                                 ELSE "unresolved",
                                                 "MATCH", None, params, {}, {}, st.nodes, q.edges,
                                                 [st.summary EXCEPT !.Relaciones = @ + 1]))]
        Parsed(from_id, to_id) ==
            IF from_id = None \/ to_id = None
            THEN [st EXCEPT !.trace = Append(@, Event(f, r, n, tipo, "invalid", "-", None,
                                                      NoProps, {}, {}, st.nodes, st.edges,
                                                      st.summary))]
            ELSE Resolved([from_id |-> from_id, to_id |-> to_id],
                          RelQuery(st.nodes, st.edges, RelConfig[tipo], from_id, to_id))
    IN  Parsed(int(row[find_header(FromNames[tipo], headers, header_map).v]),
               int(row[find_header(ToNames[tipo], headers, header_map).v]))

\* one row of a relationship file (db.py:325-345): a row whose endpoints do not parse is
\* logged and skipped; the others run the statement and count when it returns records
RelRow(st, f, r, n, tipo, row, headers, header_map) ==
    LET Resolved(params, q) ==
            IF q.records > 0
            THEN [st EXCEPT !.edges = q.edges,
                            !.summary = [st.summary EXCEPT !.Relaciones = @ + 1],
                            !.trace = Append(@, Event(f, r, n, tipo, "resolved", "MATCH", None,
                                                      params, {}, {}, st.nodes, q.edges,
                                                      [st.summary EXCEPT !.Relaciones = @ + 1]))]
            ELSE [st EXCEPT !.trace = Append(@, Event(f, r, n, tipo, "unresolved", "MATCH",
                                                      None, params, {}, {}, st.nodes, st.edges,
                                                      st.summary))]
        Parsed(from_id, to_id) ==
            IF from_id = None \/ to_id = None
            THEN [st EXCEPT !.trace = Append(@, Event(f, r, n, tipo, "invalid", "-", None,
                                                      NoProps, {}, {}, st.nodes, st.edges,
                                                      st.summary))]
            ELSE Resolved([from_id |-> from_id, to_id |-> to_id],
                          RelQuery(st.nodes, st.edges, RelConfig[tipo], from_id, to_id))
    IN  Parsed(int(row[find_header(FromNames[tipo], headers, header_map).v]),
               int(row[find_header(ToNames[tipo], headers, header_map).v]))

RECURSIVE ProcessRows(_, _, _, _, _, _, _)
ProcessRows(st, f, tipo, rows, headers, header_map, r) ==
    IF r > Len(rows) \/ st.raised THEN st
    ELSE ProcessRows(
            IF tipo \in NodeTypes
            THEN NodeRow(st, f, r, Len(rows), tipo, rows[r], header_map)
            ELSE RelRow(st, f, r, Len(rows), tipo, rows[r], headers, header_map),
            f, tipo, rows, headers, header_map, r + 1)

\* what reading one file gives, before any row is processed (db.py:185-198): the
\* branch taken, and for a recognized file its headers and the rows of its DictReader
ReadFile(content) ==
    LET none(why) == [tipo |-> why, headers |-> {}, header_map |-> NoProps, data |-> <<>>] IN
    IF content = <<>> THEN none("empty")
    ELSE LET delimiter  == determine_delimiter(content).value
             rows       == csv_reader(content, delimiter)
             fieldnames == fieldnames_of(rows)
         IN  IF fieldnames = <<>> THEN none("no_headers")
             ELSE LET header_map == header_map_of(fieldnames)
                      headers    == DOMAIN header_map
                      tipo       == Classify(headers, header_map)
                  IN  IF tipo = "Unrecognized" THEN none(tipo)
                      ELSE [tipo |-> tipo, headers |-> headers, header_map |-> header_map,
                            data |-> DictRows(rows)]

\* one file of the batch (db.py:184-442)
ProcessFile(st, f, file) ==
    IF file.tipo \notin NodeTypes \cup RelTypes
    THEN [st EXCEPT !.trace = Append(@, Event(f, 0, 0, file.tipo, "skipped", "-", None,
                                              NoProps, {}, {}, st.nodes, st.edges,
                                              st.summary))]
    ELSE ProcessRows(
            [st EXCEPT !.trace = Append(@, Event(f, 0, Len(file.data), file.tipo, "file",
                                                 "-", None, NoProps, {}, {}, st.nodes,
                                                 st.edges, st.summary))],
            f, file.tipo, file.data, file.headers, file.header_map, 1)

\* the files of the batch taken from the last to the first
RECURSIVE ProcessFiles_last_first(_, _, _)
ProcessFiles_last_first(st, files, f) ==
    IF f > Len(files) \/ st.raised THEN st
    ELSE ProcessFiles_last_first(
            ProcessFile(st, Len(files) - f + 1, files[Len(files) - f + 1]), files, f + 1)

RECURSIVE ProcessFiles(_, _, _)
ProcessFiles(st, files, f) ==
    IF f > Len(files) \/ st.raised THEN st
    ELSE ProcessFiles(ProcessFile(st, f, files[f]), files, f + 1)

\* cargar_datos_manualmente that empties the graph first, as cargar_datos_iniciales does
cargar_datos_manualmente_wipes(ns, es, cons, files) ==
    ProcessFiles([nodes |-> NoNodes, edges |-> NoEdges,
                  constraints |-> crear_esquema(NoNodes, cons).constraints,
                  summary |-> ZeroSummary, trace |-> <<>>, raised |-> FALSE],
                 files, 1)

\* cargar_datos_manualmente: the schema first, then the files in the order of the
\* mapping; files[i] is what reading the i-th content gives
cargar_datos_manualmente(ns, es, cons, files) ==
    LET sch == crear_esquema(ns, cons)
        st0 == [nodes |-> ns, edges |-> es, constraints |-> sch.constraints,
                summary |-> ZeroSummary, trace |-> <<>>, raised |-> ~sch.ok]
    IN  ProcessFiles(st0, files, 1)

(***************************************************************************)
(* The other operations of Database.                                       *)
(***************************************************************************)
AllowedLabels == {"persona", "libro", "autor", "club"}

\* str.capitalize() of an allowed label
Capitalize == [persona |-> "Persona", libro |-> "Libro", autor |-> "Autor", club |-> "Club"]

\* add_node (db.py:67): CREATE (n:Label) SET n.k = $k, ...
add_node(ns, cons, entity_label, properties) ==
    IF entity_label \notin AllowedLabels
    THEN [ok |-> FALSE, nodes |-> ns, touched |-> {}]
    ELSE CreateNode(ns, cons, Capitalize[entity_label], properties)

\* get_identifier_property (db.py:76)
get_identifier_property(entity_label) ==
    IF Capitalize[entity_label] = "Libro" THEN s_titulo
    ELSE IF Capitalize[entity_label] = "Club" THEN s_nombre
    ELSE s_nombreCompleto

\* update_node (db.py:82): MATCH (n:Label {id_property: $identifier}) SET n.k = $k, ...
update_node(ns, cons, entity_label, identifier, properties) ==
    IF entity_label \notin AllowedLabels
    THEN [ok |-> FALSE, nodes |-> ns, touched |-> {}]
    ELSE LET label       == Capitalize[entity_label]
             id_property == get_identifier_property(entity_label)
             rest        == [k \in (DOMAIN properties) \ {id_property} |-> properties[k]]
             found       == {i \in 1..Len(ns[label]) :
                                CypherEq(Prop(ns[label][i], id_property), identifier)}
             new         == [ns EXCEPT ![label] =
                                [i \in 1..Len(@) |->
                                    IF i \in found
                                    THEN [@[i] EXCEPT !.props = SetProps(@, rest)]
                                    ELSE @[i]]]
         IN  IF DOMAIN rest = {} THEN [ok |-> TRUE, nodes |-> ns, touched |-> {}]
             ELSE IF Violates(new, cons) THEN [ok |-> FALSE, nodes |-> ns, touched |-> {}]
             ELSE [ok |-> TRUE, nodes |-> new, touched |-> found]

\* relaciones_map (db.py:96-101)
relaciones_map ==
    [autoria |-> [from_label |-> "Autor", to_label |-> "Libro", rel_type |-> "ESCRIBIO",
                  from_prop |-> s_nombreCompleto, to_prop |-> s_titulo],
     membresia |-> [from_label |-> "Persona", to_label |-> "Club", rel_type |-> "PERTENECE_A",
                    from_prop |-> s_nombreCompleto, to_prop |-> s_nombre],
     lectura |-> [from_label |-> "Persona", to_label |-> "Libro", rel_type |-> "LEE",
                  from_prop |-> s_nombreCompleto, to_prop |-> s_titulo],
     recomendacion |-> [from_label |-> "Club", to_label |-> "Libro", rel_type |-> "RECOMIENDA",
                        from_prop |-> s_nombre, to_prop |-> s_titulo]]

\* the nodes of a label that WHERE toString(n.csvId) = toString($id) OR n.prop = $id keeps
MatchByIdOrKey(ns, label, prop, id) ==
    {i \in 1..Len(ns[label]) :
        \/ CypherEq(toString(Prop(ns[label][i], s_csvId)), toString(id))
        \/ CypherEq(Prop(ns[label][i], prop), id)}

\* MATCH (a) ... UNWIND $to_ids AS to_id MATCH (b) ... MERGE (a)-[:type]->(b)
RECURSIVE UnwindMerge(_, _, _, _, _)
UnwindMerge(ns, es, config, A, to_ids) ==
    IF to_ids = <<>> THEN es
    ELSE UnwindMerge(ns,
            MergeEdges(es, config.rel_type,
                       A \X MatchByIdOrKey(ns, config.to_label, config.to_prop, Head(to_ids))),
            config, A, Tail(to_ids))

\* crear_relaciones (db.py:95)
crear_relaciones(ns, es, tipo_relacion, from_node_id, to_node_ids) ==
    IF tipo_relacion \notin DOMAIN relaciones_map
    THEN [ok |-> FALSE, edges |-> es]
    ELSE LET config == relaciones_map[tipo_relacion]
             A      == MatchByIdOrKey(ns, config.from_label, config.from_prop, from_node_id)
         IN  [ok |-> TRUE, edges |-> UnwindMerge(ns, es, config, A, to_node_ids)]

(***************************************************************************)
(* cargar_datos_iniciales (db.py:116-134).  The eight files live with the  *)
(* store; a file is [present, rows], a row maps its headers to fields.     *)
(***************************************************************************)
\* row.col of LOAD CSV WITH HEADERS: null for a column the file does not have
Col(row, col) == IF col \in DOMAIN row THEN row[col] ELSE None

\* queries_load (db.py:121-130): the file, the label or the relationship, and per
\* property the column it is read from and whether toInteger is applied
queries_load ==
    << [file |-> "Persona.csv", kind |-> "node", label |-> "Persona",
        props |-> << <<s_nombreCompleto, s_Nombre, FALSE>>, <<s_tipoLector, s_TipoLector, FALSE>>,
                     <<s_csvId, s_id, TRUE>> >>],
       [file |-> "Autor.csv", kind |-> "node", label |-> "Autor",
        props |-> << <<s_nombreCompleto, s_Nombre, FALSE>>, <<s_nacionalidad, s_Nacionalidad, FALSE>>,
                     <<s_csvId, s_idAutor, TRUE>> >>],
       [file |-> "Libro.csv", kind |-> "node", label |-> "Libro",
        props |-> << <<s_titulo, s_Titulo, FALSE>>, <<s_generoLiterario, s_Genero, FALSE>>,
                     <<s_anoPublicacion, s_Anno, TRUE>>, <<s_csvId, s_IdLibro, TRUE>> >>],
       [file |-> "Club.csv", kind |-> "node", label |-> "Club",
        props |-> << <<s_nombre, s_Nombre, FALSE>>, <<s_ubicacion, s_Ubicacion, FALSE>>,
                     <<s_tematica, s_Tematica, FALSE>>, <<s_csvId, s_IdClub, TRUE>> >>],
       [file |-> "Autor-libro.csv", kind |-> "rel", rel_type |-> "ESCRIBIO",
        from_label |-> "Autor", from_col |-> s_idAutor, to_label |-> "Libro", to_col |-> s_idLibro],
       [file |-> "Persona-libro.csv", kind |-> "rel", rel_type |-> "LEE",
        from_label |-> "Persona", from_col |-> s_id, to_label |-> "Libro", to_col |-> s_idLibro],
       [file |-> "Club-libro.csv", kind |-> "rel", rel_type |-> "RECOMIENDA",
        from_label |-> "Club", from_col |-> s_idClub, to_label |-> "Libro", to_col |-> s_idLibro],
       [file |-> "Persona-club2.csv", kind |-> "rel", rel_type |-> "PERTENECE_A",
        from_label |-> "Persona", from_col |-> s_idPersona, to_label |-> "Club", to_col |-> s_idClub] >>

\* the property map of CREATE (n:Label {k: row.col, k: toInteger(row.col), ...})
RowProps(q, row) ==
    [k \in {q.props[i][1] : i \in 1..Len(q.props)} |->
        LET p == q.props[CHOOSE i \in 1..Len(q.props) : q.props[i][1] = k] IN
        IF p[3] THEN toInteger(Col(row, p[2])) ELSE Col(row, p[2])]

\* one LOAD CSV statement over the rows left, inside its transaction
RECURSIVE LoadRows(_, _, _, _)
LoadRows(ns, es, q, rows) ==
    IF rows = <<>> THEN [nodes |-> ns, edges |-> es]
    ELSE IF q.kind = "node"
    THEN LoadRows([ns EXCEPT ![q.label] =
                      Append(@, [label |-> q.label,
                                 props |-> SetProps(NoProps, RowProps(q, Head(rows)))])],
                  es, q, Tail(rows))
    ELSE LET from_id == toInteger(Col(Head(rows), q.from_col))
             to_id   == toInteger(Col(Head(rows), q.to_col))
             A == {i \in 1..Len(ns[q.from_label]) :
                      CypherEq(Prop(ns[q.from_label][i], s_csvId), from_id)}
             B == {i \in 1..Len(ns[q.to_label]) :
                      CypherEq(Prop(ns[q.to_label][i], s_csvId), to_id)}
         IN  LoadRows(ns, MergeEdges(es, q.rel_type, A \X B), q, Tail(rows))

\* the statements in turn, each committed on its own; a missing file or a constraint
\* broken at commit fails the statement, rolls it back and leaves the method
RECURSIVE LoadFiles(_, _, _, _, _)
LoadFiles(ns, es, cons, server, k) ==
    IF k > Len(queries_load) THEN [ok |-> TRUE, nodes |-> ns, edges |-> es, loaded |-> k - 1]
    ELSE LET q == queries_load[k]
             r == LoadRows(ns, es, q, server[q.file].rows)
         IN  IF ~server[q.file].present \/ Violates(r.nodes, cons)
             THEN [ok |-> FALSE, nodes |-> ns, edges |-> es, loaded |-> k - 1]
             ELSE LoadFiles(r.nodes, r.edges, cons, server, k + 1)

\* cargar_datos_iniciales: MATCH (n) DETACH DELETE n, the schema, then the statements
cargar_datos_iniciales(ns, es, cons, server) ==
    LET sch == crear_esquema(NoNodes, cons) IN
    IF ~sch.ok
    THEN [ok |-> FALSE, nodes |-> NoNodes, edges |-> NoEdges,
          constraints |-> sch.constraints, loaded |-> 0]
    ELSE LET r == LoadFiles(NoNodes, NoEdges, sch.constraints, server, 1) IN
         [ok |-> r.ok, nodes |-> r.nodes, edges |-> r.edges,
          constraints |-> sch.constraints, loaded |-> r.loaded]

(***************************************************************************)
(* The store before the first call: an empty database without schema.      *)
(***************************************************************************)
Idle == [op |-> "idle"]

EmptyStore ==
    /\ nodes = NoNodes
    /\ edges = NoEdges
    /\ constraints = {}

(***************************************************************************)
(* The inputs of the model: uploaded files, batches of them, requests of   *)
(* the other routes, and the files the store loads by itself.              *)
(***************************************************************************)
RECURSIVE JoinWith(_, _)
JoinWith(parts, sep) ==
    IF parts = <<>> THEN <<>>
    ELSE IF Len(parts) = 1 THEN parts[1]
    ELSE parts[1] \o sep \o JoinWith(Tail(parts), sep)

\* the text of a file with the given delimiter and rows of fields
FileText(d, table) ==
    JoinWith([i \in 1..Len(table) |-> JoinWith(table[i], <<d>>)], <<"\n">>)

Files ==
    [ PersonaCsv |->
        FileText(";", << <<s_id, s_Nombre, s_TipoLector>>,
                         << <<" ", "1", " ">>, <<"A">>, <<"F">> >>,
                         << <<"x">>, <<"A">>, <<"O">> >> >>),
      Persona2Csv |->
        FileText(";", << <<s_id, s_Nombre, s_TipoLector>>,
                         << <<"1">>, <<"B">>, <<"F">> >> >>),
      PersonaCortaCsv |->
        FileText(";", << <<s_id, s_Nombre, s_TipoLector>>,
                         << <<"2">> >>,
                         << <<"2">>, <<"A">>, <<"O">> >> >>),
      PersonaSinTipoCsv |->
        FileText(";", << <<s_id, s_Nombre, s_TipoLector>>,
                         << <<"1">>, <<"A">> >>,
                         << <<"y">> >> >>),
      AutorCsv |->
        FileText(",", << <<s_idAutor, s_Nombre, s_Nacionalidad>>,
                         << <<"1">>, <<"A">>, <<"N">> >> >>),
      AutorNegCsv |->
        FileText(",", << <<s_idAutor, s_Nombre, s_Nacionalidad>>,
                         << <<"-", "1">>, <<"A">>, <<"N">> >> >>),
      LibroCsv |->
        FileText("\t", << <<s_IdLibro, s_Titulo, s_Genero, s_Anno>>,
                          << <<"1">>, <<"T">>, <<"G">>, <<"M", "M">> >> >>),
      ClubCsv |->
        FileText(";", << <<s_IdClub, s_Nombre, s_Ubicacion, s_Tematica>>,
                         << <<"1">>, <<"C">>, <<"U">>, <<"T">> >> >>),
      ClubXCsv |->
        FileText(";", << <<s_IdClub, s_Nombre, s_Ubicacion, s_Tematica>>,
                         << <<"x">>, <<"C">>, <<"U">>, <<"T">> >> >>),
      AutorLibroCsv |->
        FileText(",", << <<s_idAutor, s_idLibro>>,
                         << <<"1">>, <<"1">> >>,
                         << <<"1">>, <<"9">> >> >>),
      PersonaLibroCsv |->
        FileText(";", << <<s_id, s_idLibro>>,
                         << <<"1">>, <<"1">> >>,
                         << <<"x">>, <<"1">> >> >>),
      ClubLibroCsv |->
        FileText(";", << <<s_idClub, s_idLibro>>,
                         << <<"9">>, <<"1">> >>,
                         << <<"1">>, <<"1">> >> >>),
      PersonaClubCsv |->
        FileText(";", << <<s_idPersona, s_idClub>>,
                         << <<"1">>, <<"1">> >> >>),
      OtroCsv |->
        FileText(";", << <<s_otro, s_Nombre>>,
                         << <<"1">>, <<"A">> >> >>),
      SinEncabezadosCsv |-> <<"\n", "1", ";", "A">>,
      VacioCsv |-> <<>> ]

\* the batches uploaded
Batches ==
    { <<"PersonaCsv">>, <<"Persona2Csv">>, <<"AutorCsv">>, <<"AutorNegCsv">>, <<"LibroCsv">>,
      <<"ClubCsv">>,
      <<"ClubXCsv">>, <<"AutorLibroCsv">>, <<"PersonaLibroCsv">>, <<"ClubLibroCsv">>,
      <<"PersonaClubCsv">>,
      <<"PersonaCortaCsv", "AutorCsv">>,
      <<"PersonaSinTipoCsv">>,
      <<"PersonaLibroCsv", "PersonaCsv">>,
      <<"LibroCsv", "PersonaCsv">>,
      <<"AutorCsv", "LibroCsv", "AutorLibroCsv">>,
      <<"ClubLibroCsv", "OtroCsv", "VacioCsv", "SinEncabezadosCsv", "LibroCsv">> }

\* each uploaded file as read
Uploads == [f \in DOMAIN Files |-> ReadFile(Files[f])]

Contents(batch) == [i \in 1..Len(batch) |-> Uploads[batch[i]]]

\* the requests of POST /<entidad>, PUT /<entidad>/<id> and POST /relaciones/<tipo>
AddInputs ==
    { <<"persona", (s_nombreCompleto :> StrV(<<"A">>))>>,
      <<"club", (s_nombre :> StrV(<<"C">>))>>,
      <<"revista", (s_titulo :> StrV(<<"T">>))>> }

UpdateInputs ==
    { <<"persona", StrV(<<"A">>),
        (s_tipoLector :> StrV(<<"O">>)) @@ (s_nombreCompleto :> StrV(<<"B">>))>>,
      <<"libro", StrV(<<"T">>), (s_titulo :> StrV(<<"U">>))>>,
      <<"revista", StrV(<<"T">>), (s_titulo :> StrV(<<"U">>))>> }

RelInputs ==
    { <<"lectura", StrV(<<"A">>), <<StrV(<<"T">>), IntV(1)>> >>,
      <<"autoria", IntV(1), <<IntV(1)>> >>,
      <<"membresia", StrV(<<"A">>), <<StrV(<<"C">>)>> >>,
      <<"recomendacion", IntV(1), <<StrV(<<"T">>), StrV(<<"T">>)>> >>,
      <<"otra", IntV(1), <<IntV(1)>> >> }

\* a row of a file of the store
Row2(k1, v1, k2, v2) == (k1 :> StrV(v1)) @@ (k2 :> StrV(v2))
Row3(k1, v1, k2, v2, k3, v3) == Row2(k1, v1, k2, v2) @@ (k3 :> StrV(v3))
Row4(k1, v1, k2, v2, k3, v3, k4, v4) == Row3(k1, v1, k2, v2, k3, v3) @@ (k4 :> StrV(v4))
Present(rows) == [present |-> TRUE, rows |-> rows]
Absent == [present |-> FALSE, rows |-> <<>>]

GoodFiles ==
    ("Persona.csv" :> Present(<< Row3(s_id, <<"1">>, s_Nombre, <<"A">>, s_TipoLector, <<"F">>) >>))
    @@ ("Autor.csv" :> Present(<<>>))
    @@ ("Libro.csv" :> Present(<< Row4(s_IdLibro, <<"1">>, s_Titulo, <<"T">>, s_Genero, <<"G">>, s_Anno, <<"7">>) >>))
    @@ ("Club.csv" :> Present(<<>>))
    @@ ("Autor-libro.csv" :> Present(<<>>))
    @@ ("Persona-libro.csv" :> Present(<< Row2(s_id, <<"1">>, s_idLibro, <<"1">>) >>))
    @@ ("Club-libro.csv" :> Present(<<>>))
    @@ ("Persona-club2.csv" :> Present(<<>>))

\* the files the store may hold: all well, a name twice in Persona.csv, a file missing
ServerFiles ==
    [ Good |-> GoodFiles,
      DupPersona |->
        ("Persona.csv" :> Present(<< Row3(s_id, <<"1">>, s_Nombre, <<"A">>, s_TipoLector, <<"F">>),
                                     Row3(s_id, <<"2">>, s_Nombre, <<"A">>, s_TipoLector, <<"O">>) >>))
        @@ GoodFiles,
      NoClubLibro |-> ("Club-libro.csv" :> Absent) @@ GoodFiles ]

(***************************************************************************)
(* The routes of app.py: a request is handled whole, then answered.        *)
(***************************************************************************)
Init ==
    /\ EmptyStore
    /\ last = Idle
    /\ arg = <<>>

Fits(ns, es) == NodeCount(ns) <= MaxNodes /\ EdgeCount(es) <= MaxEdges

\* POST /admin/cargar-datos-manual (app.py:169)
CargarDatosManuales(batch) ==
    /\ last = Idle
    /\ \E r \in {cargar_datos_manualmente(nodes, edges, constraints, Contents(batch))} :
           /\ Fits(r.nodes, r.edges)
           /\ nodes' = r.nodes
           /\ edges' = r.edges
           /\ constraints' = r.constraints
           /\ last' = [op |-> "cargar_datos_manualmente", batch |-> batch, raised |-> r.raised,
                       status |-> IF r.raised THEN 500 ELSE 200,
                       summary |-> r.summary, trace |-> r.trace,
                       pre |-> [nodes |-> nodes, edges |-> edges]]
           /\ UNCHANGED arg

\* POST /admin/cargar-datos (app.py:159)
CargarDatosIniciales(server) ==
    /\ last = Idle
    /\ \E r \in {cargar_datos_iniciales(nodes, edges, constraints, ServerFiles[server])} :
           /\ Fits(r.nodes, r.edges)
           /\ nodes' = r.nodes
           /\ edges' = r.edges
           /\ constraints' = r.constraints
           /\ last' = [op |-> "cargar_datos_iniciales", server |-> server, raised |-> ~r.ok,
                       status |-> IF r.ok THEN 200 ELSE 500, loaded |-> r.loaded,
                       pre |-> [nodes |-> nodes, edges |-> edges]]
           /\ UNCHANGED arg

\* POST /<entidad> (app.py:68)
AddEntity(in) ==
    /\ last = Idle
    /\ \E r \in {add_node(nodes, constraints, in[1], in[2])} :
           /\ Fits(r.nodes, edges)
           /\ nodes' = r.nodes
           /\ last' = [op |-> "add_node", input |-> in, raised |-> ~r.ok,
                       status |-> IF r.ok THEN 201 ELSE 500,
                       pre |-> [nodes |-> nodes, edges |-> edges]]
           /\ UNCHANGED <<edges, constraints, arg>>

\* PUT /<entidad>/<identificador> (app.py:79)
UpdateEntity(in) ==
    /\ last = Idle
    /\ \E r \in {update_node(nodes, constraints, in[1], in[2], in[3])} :
           /\ nodes' = r.nodes
           /\ last' = [op |-> "update_node", input |-> in, raised |-> ~r.ok,
                       status |-> IF r.ok THEN 200 ELSE 500,
                       pre |-> [nodes |-> nodes, edges |-> edges]]
           /\ UNCHANGED <<edges, constraints, arg>>

\* POST /relaciones/<tipo_relacion> (app.py:90)
CrearRelacion(in) ==
    /\ last = Idle
    /\ \E r \in {crear_relaciones(nodes, edges, in[1], in[2], in[3])} :
           /\ Fits(nodes, r.edges)
           /\ edges' = r.edges
           /\ last' = [op |-> "crear_relaciones", input |-> in, raised |-> ~r.ok,
                       status |-> IF r.ok THEN 201 ELSE 500,
                       pre |-> [nodes |-> nodes, edges |-> edges]]
           /\ UNCHANGED <<nodes, constraints, arg>>

\* the response is sent: the server waits for the next request
Respond ==
    /\ last # Idle
    /\ last' = Idle
    /\ UNCHANGED <<nodes, edges, constraints, arg>>

Next ==
    \/ \E batch \in Batches : CargarDatosManuales(batch)
    \/ \E server \in DOMAIN ServerFiles : CargarDatosIniciales(server)
    \/ \E in \in AddInputs : AddEntity(in)
    \/ \E in \in UpdateInputs : UpdateEntity(in)
    \/ \E in \in RelInputs : CrearRelacion(in)
    \/ Respond

Spec == Init /\ [][Next]_vars

(***************************************************************************)
(* Properties of the routes.  After a call `last` holds what it did and    *)
(* the store it started from, and the variables hold the store it left.    *)
(***************************************************************************)
Manual == "cargar_datos_manualmente"

\* the branch each file of a batch takes
Tipos(batch) == [i \in 1..Len(batch) |-> Uploads[batch[i]].tipo]

\* the batch of the last call ingested once more, from the store as it is now
Again == cargar_datos_manualmente(nodes, edges, constraints, Contents(last.batch))

SameCounts(ns1, es1, ns2, es2) ==
    /\ CountByLabel(ns1) = CountByLabel(ns2)
    /\ EdgeCount(es1) = EdgeCount(es2)

\* a Club file of the batch has a row whose IdClub is not an integer
HasNonIntegerClubRow(batch) ==
    \E i \in 1..Len(batch) :
        LET file == Uploads[batch[i]] IN
        /\ file.tipo = "Club"
        /\ \E r \in 1..Len(file.data) :
              safe_int(file.data[r][file.header_map[s_idclub]]) = None

\* no relationship file of the batch comes before a node file of it
NodeFilesFirst(batch) ==
    \A i, j \in 1..Len(batch) :
        i < j => ~(Tipos(batch)[i] \in RelTypes /\ Tipos(batch)[j] \in NodeTypes)

\* C1 as stated: ingesting a file set twice leaves the same number of nodes of every
\* label and the same number of relationships as ingesting it once, for every file set,
\* Club rows with a non-integer IdClub included.
C1_IdempotentForEveryFileSet ==
    last.op = Manual => SameCounts(Again.nodes, Again.edges, nodes, edges)

\* C1 amended: ingesting a file set twice leaves the same number of nodes of every label
\* and the same number of relationships as ingesting it once, when no Club row of the set
\* has a non-integer IdClub and no relationship file of the set comes before a node file.
C1_IdempotentUpserts ==
    (last.op = Manual /\ ~HasNonIntegerClubRow(last.batch) /\ NodeFilesFirst(last.batch))
        => SameCounts(Again.nodes, Again.edges, nodes, edges)

\* C1 witness: an Autor, a Libro and the edge between them were ingested, and a second
\* ingestion of the same three files adds nothing
C1_Witness ==
    /\ last.op = Manual
    /\ last.batch = <<"AutorCsv", "LibroCsv", "AutorLibroCsv">>
    /\ last.summary = [ZeroSummary EXCEPT !.Autor = 1, !.Libro = 1, !.Relaciones = 1]
    /\ Len(nodes["Autor"]) = 1 /\ Len(nodes["Libro"]) = 1 /\ EdgeCount(edges) >= 1
    /\ Again.summary = last.summary
    /\ SameCounts(Again.nodes, Again.edges, nodes, edges)

\* C2: the store never holds more than one edge of a type between an ordered pair of
\* nodes, whatever relationship files were ingested and crear_relaciones calls made, and
\* ingesting a batch of relationship files once more leaves the number of edges as it is.
C2_AtMostOneEdgePerPair ==
    /\ \A e \in DOMAIN edges : edges[e] = 1
    /\ (last.op = Manual /\ \A i \in 1..Len(last.batch) : Tipos(last.batch)[i] \in RelTypes)
          => EdgeCount(Again.edges) = EdgeCount(edges)

\* C2 witness: the Autor-Libro file was ingested when its ESCRIBIO edge already existed:
\* its row resolved and the number of edges did not change
C2_Witness ==
    /\ last.op = Manual
    /\ last.batch = <<"AutorLibroCsv">>
    /\ \E k \in 1..Len(last.trace) : last.trace[k].outcome = "resolved"
    /\ \E e \in DOMAIN last.pre.edges : e.type = "ESCRIBIO"
    /\ EdgeCount(edges) = EdgeCount(last.pre.edges)
    /\ EdgeCount(edges) >= 1

\* the rows of relationship files that parsed and matched no pair of nodes
UnresolvedRows ==
    IF last.op = Manual
    THEN {k \in 1..Len(last.trace) : last.trace[k].outcome = "unresolved"}
    ELSE {}

\* the event of an unresolved row is followed by the event of the next row of its file,
\* or after the last row by the event of the next file; no exception ended the call there
GoesOn(k) ==
    LET e == last.trace[k] IN
    IF e.row < e.nrows
    THEN /\ k < Len(last.trace)
         /\ last.trace[k + 1].file = e.file
         /\ last.trace[k + 1].row = e.row + 1
    ELSE IF e.file < Len(last.batch)
    THEN /\ k < Len(last.trace)
         /\ last.trace[k + 1].file = e.file + 1
         /\ last.trace[k + 1].row = 0
    ELSE k = Len(last.trace) /\ ~last.raised

RECURSIVE Trimmed(_)
Trimmed(s) ==
    IF s = <<>> THEN s
    ELSE IF Head(s) \in Whitespace THEN Trimmed(Tail(s))
    ELSE IF s[Len(s)] \in Whitespace THEN Trimmed(SubSeq(s, 1, Len(s) - 1))
    ELSE s

Unsigned(s) == IF s # <<>> /\ Head(s) \in {"+", "-"} THEN Tail(s) ELSE s

\* s is an integer in decimal, with whitespace around it allowed
IsIntegerText(s) ==
    LET digits == Unsigned(Trimmed(s)) IN
    digits # <<>> /\ \A i \in 1..Len(digits) : IsDigit(digits[i])

RECURSIVE Magnitude(_)
Magnitude(digits) ==
    IF digits = <<>> THEN 0
    ELSE 10 * Magnitude(SubSeq(digits, 1, Len(digits) - 1)) + DigitVal(digits[Len(digits)])

\* the integer that s denotes
IntegerOf(s) ==
    LET t == Trimmed(s) IN
    IF Head(t) = "-" THEN 0 - Magnitude(Unsigned(t)) ELSE Magnitude(Unsigned(t))

\* C4: every node row whose identifier field is an integer in decimal, whitespace around
\* it allowed, is written to nodes whose csvId is that integer.
C4_SurrogateIsTheInteger ==
    last.op = Manual =>
        \A k \in 1..Len(last.trace) :
            LET e == last.trace[k] IN
            ( /\ e.tipo \in NodeTypes
              /\ e.outcome = "written"
              /\ e.raw_id.t = "str"
              /\ IsIntegerText(e.raw_id.v) )
            => /\ e.after # {}
               /\ \A n \in e.after : Prop(n, s_csvId) = IntV(IntegerOf(e.raw_id.v))

\* C4 witness: the Persona row with identifier " 1 " was written to a node with csvId 1
C4_Witness ==
    /\ last.op = Manual
    /\ \E k \in 1..Len(last.trace) :
          /\ last.trace[k].tipo = "Persona"
          /\ last.trace[k].outcome = "written"
          /\ last.trace[k].raw_id = StrV(<<" ", "1", " ">>)
          /\ \E n \in last.trace[k].after : Prop(n, s_csvId) = IntV(1)

\* C5: in every reachable state no two Persona nodes and no two Autor nodes share
\* nombreCompleto and no two Libro nodes share titulo.
C5_UniqueNames ==
    \A label \in {"Persona", "Autor", "Libro"} : ~HasDuplicates(nodes, label)

\* C8: when the store raises during the write of a row, the files after that row's file
\* in the batch are still processed.
C8_LaterFilesProcessed ==
    last.op = Manual =>
        \A k \in 1..Len(last.trace) :
            last.trace[k].outcome = "raised" =>
                \A f \in (last.trace[k].file + 1)..Len(last.batch) :
                    \E j \in 1..Len(last.trace) :
                        last.trace[j].file = f /\ last.trace[j].row = 0

\* C9: every row of a recognized file, a row shorter than the header included, is
\* written or logged and skipped, and the rows after it in the file are processed.
C9_NoRowAbortsItsFile ==
    last.op = Manual =>
        \A k \in 1..Len(last.trace) :
            last.trace[k].outcome = "file" =>
                \A r \in 1..last.trace[k].nrows :
                    \E j \in 1..Len(last.trace) :
                        /\ last.trace[j].file = last.trace[k].file
                        /\ last.trace[j].row = r
                        /\ last.trace[j].outcome \in
                              {"written", "invalid", "resolved", "unresolved"}

\* C10: cargar_datos_iniciales either succeeds with its eight files loaded, or raises
\* and leaves the graph as it was before the call.
C10_AllOrNothing ==
    last.op = "cargar_datos_iniciales" =>
        \/ ~last.raised /\ last.loaded = Len(queries_load)
        \/ last.raised /\ nodes = last.pre.nodes /\ edges = last.pre.edges

\* the graph before the k-th event of the last ingestion: the one the call started from,
\* or the one the event before left
Before(k) == IF k = 1 THEN last.pre ELSE last.trace[k - 1].graph

\* nothing of graph g is missing in graph h: every node place of g is one of h, every edge
\* of g is an edge of h between the same places, held as often
Grows(g, h) ==
    /\ \A label \in Labels : Len(g.nodes[label]) <= Len(h.nodes[label])
    /\ \A e \in DOMAIN g.edges : e \in DOMAIN h.edges /\ h.edges[e] >= g.edges[e]

\* C11: manual ingestion deletes nothing: over every step of a call, and so over the
\* call, the nodes and the edges of the graph only grow and every edge that existed is
\* still there, with its type and its two endpoints.
C11_IngestionOnlyGrows ==
    last.op = Manual =>
        /\ Grows(last.pre, [nodes |-> nodes, edges |-> edges])
        /\ \A k \in 1..Len(last.trace) : Grows(Before(k), last.trace[k].graph)
        /\ last.trace # <<>> =>
              last.trace[Len(last.trace)].graph = [nodes |-> nodes, edges |-> edges]

\* C11 witness: an ingestion into a graph that had nodes and an edge added a node
C11_Witness ==
    /\ last.op = Manual
    /\ ~last.raised
    /\ NodeCount(last.pre.nodes) >= 2
    /\ EdgeCount(last.pre.edges) >= 1
    /\ NodeCount(nodes) > NodeCount(last.pre.nodes)
    /\ \A e \in DOMAIN last.pre.edges : e \in DOMAIN edges

\* the rows of node files that were written
WrittenRows ==
    IF last.op = Manual
    THEN {k \in 1..Len(last.trace) : last.trace[k].outcome = "written"}
    ELSE {}

\* the places under the label where property key has value v, in the graph g
Holding(g, label, key, v) ==
    {i \in 1..Len(g.nodes[label]) : Prop(g.nodes[label][i], key) = v}

\* the natural key of a label
NaturalKey ==
    [Persona |-> s_nombreCompleto, Autor |-> s_nombreCompleto, Libro |-> s_titulo,
     Club |-> s_nombre]

\* the k-th event wrote exactly the nodes that held value v of key before it, or, when
\* there was none, one new node
MergedOn(k, key, v) ==
    LET e     == last.trace[k]
        old   == Holding(Before(k), e.tipo, key, v)
        count == Len(Before(k).nodes[e.tipo])
    IN  IF old # {}
        THEN e.touched = old /\ Len(e.graph.nodes[e.tipo]) = count
        ELSE e.touched = {count + 1} /\ Len(e.graph.nodes[e.tipo]) = count + 1

\* the k-th event wrote one new node and no other
Created(k) ==
    LET e     == last.trace[k]
        count == Len(Before(k).nodes[e.tipo])
    IN  e.touched = {count + 1} /\ Len(e.graph.nodes[e.tipo]) = count + 1

\* C12 as stated: a node row that carries a csvId is merged on it: a Persona, Autor or
\* Libro row whose csvId is that of an existing node of the label updates that node and
\* creates no second node with the csvId.
C12_MergedOnSurrogate ==
    \A k \in WrittenRows :
        LET e == last.trace[k] IN
        (e.tipo \in {"Persona", "Autor", "Libro"} /\ s_csvId \in DOMAIN e.bag)
            => MergedOn(k, s_csvId, e.bag[s_csvId])

\* C12 amended: a Persona or Autor row is merged on nombreCompleto and a Libro row on
\* titulo, whether or not the row carries a csvId; a Club row is merged on csvId when its
\* IdClub is an integer and is created as a new node when it is not.
C12_MergeKeyByLabel ==
    \A k \in WrittenRows :
        LET e == last.trace[k] IN
        IF e.tipo \in {"Persona", "Autor", "Libro"}
        THEN MergedOn(k, NaturalKey[e.tipo], e.bag[NaturalKey[e.tipo]])
        ELSE IF s_csvId \in DOMAIN e.bag
        THEN MergedOn(k, s_csvId, e.bag[s_csvId])
        ELSE Created(k)

\* C12 witness: the Persona row 1;B;F was written when Persona A had csvId 1: B is a new
\* node and two Persona nodes have csvId 1
C12_Witness ==
    /\ last.op = Manual
    /\ last.batch = <<"Persona2Csv">>
    /\ Holding(last.pre, "Persona", s_csvId, IntV(1)) # {}
    /\ WrittenRows # {}
    /\ Cardinality(Holding([nodes |-> nodes], "Persona", s_csvId, IntV(1))) = 2

\* C13: every relationship row creates at most one edge.
C13_OneEdgePerRow ==
    last.op = Manual =>
        \A k \in 1..Len(last.trace) :
            last.trace[k].tipo \in RelTypes /\ last.trace[k].row > 0
                => last.trace[k].edges <= EdgeCount(Before(k).edges) + 1

\* the relationship rows of the last ingestion whose statement was sent
QueriedRows ==
    IF last.op = Manual
    THEN {k \in 1..Len(last.trace) : last.trace[k].outcome \in {"resolved", "unresolved"}}
    ELSE {}

\* the events come file after file in the order of the batch, and row after row
InOrder ==
    /\ last.trace # <<>> => last.trace[1].file = 1 /\ last.trace[1].row = 0
    /\ \A k \in 2..Len(last.trace) :
          LET a == last.trace[k - 1]
              b == last.trace[k]
          IN  \/ b.file = a.file /\ b.row = a.row + 1
              \/ b.file = a.file + 1 /\ b.row = 0 /\ a.row = a.nrows

\* C14: the files are processed in the order of the batch and the rows in file order,
\* every write being in the graph before the next row; a relationship row resolves
\* exactly against the nodes that the rows and files before it left in the graph, never
\* against what a later file creates.
C14_SequentialProcessing ==
    last.op = Manual =>
        /\ InOrder
        /\ last.trace # <<>> =>
              last.trace[Len(last.trace)].graph = [nodes |-> nodes, edges |-> edges]
        /\ \A k \in QueriedRows :
              LET e   == last.trace[k]
                  cfg == RelConfig[e.tipo]
                  A   == MatchByCoalesce(Before(k).nodes, cfg.from_label, cfg.from_keys,
                                         e.bag.from_id)
                  B   == MatchByCoalesce(Before(k).nodes, cfg.to_label, cfg.to_keys,
                                         e.bag.to_id)
              IN  /\ e.outcome = "resolved" <=> (A # {} /\ B # {})
                  /\ DOMAIN e.graph.edges =
                        DOMAIN Before(k).edges
                            \cup {[type |-> cfg.rel_type, src |-> p[1], dst |-> p[2]] : p \in A \X B}

\* C14 witness: the Autor and the Libro of the first two files of a batch did not exist
\* before it, and the row of its third file resolved against them
C14_Witness ==
    /\ last.op = Manual
    /\ last.batch = <<"AutorCsv", "LibroCsv", "AutorLibroCsv">>
    /\ last.pre.nodes = NoNodes
    /\ last.trace[6].outcome = "resolved"
    /\ last.trace[7].outcome = "unresolved"
    /\ EdgeCount(edges) = 1

\* s is a non-negative integer in decimal, with whitespace around it allowed
IsNaturalText(s) == IsIntegerText(s) /\ IntegerOf(s) >= 0

\* C15: in every reachable state a csvId is a non-negative integer, and a node row whose
\* identifier is not such an integer is written without csvId.
C15_SurrogateNonNegative ==
    /\ \A label \in Labels : \A i \in 1..Len(nodes[label]) :
          s_csvId \in DOMAIN nodes[label][i].props =>
              /\ nodes[label][i].props[s_csvId].t = "int"
              /\ nodes[label][i].props[s_csvId].v >= 0
    /\ \A k \in WrittenRows :
          ~(last.trace[k].raw_id.t = "str" /\ IsNaturalText(last.trace[k].raw_id.v))
              => s_csvId \notin DOMAIN last.trace[k].bag

\* the file of the k-th event as read, and the row of the event
FileOf(k) == Uploads[last.batch[last.trace[k].file]]
RowOf(k) == FileOf(k).data[last.trace[k].row]

\* a field that is no integer in decimal
NotInteger(x) == x.t # "str" \/ ~IsIntegerText(x.v)

\* the rows of node files whose identifier is no integer, and the Libro rows whose year is none
BadIdRows ==
    IF last.op = Manual
    THEN {k \in 1..Len(last.trace) :
            /\ last.trace[k].tipo \in NodeTypes
            /\ last.trace[k].row > 0
            /\ NotInteger(last.trace[k].raw_id)}
    ELSE {}
BadYearRows ==
    IF last.op = Manual
    THEN {k \in 1..Len(last.trace) :
            /\ last.trace[k].tipo = "Libro"
            /\ last.trace[k].row > 0
            /\ NotInteger(RowOf(k)[FileOf(k).header_map[s_anno]])}
    ELSE {}

\* the attribute that keeps the raw identifier of a row
RawIdKey(k) ==
    IF last.trace[k].tipo = "Persona" THEN s_id
    ELSE FileOf(k).header_map[IdHeader[last.trace[k].tipo]]

\* the counter of the row's type went up by one over the k-th event
Counted(k) ==
    last.trace[k].summary =
        [last.trace[k - 1].summary EXCEPT ![last.trace[k].tipo] = @ + 1]

EndpointText(k, names) ==
    RowOf(k)[find_header(names[last.trace[k].tipo], FileOf(k).headers, FileOf(k).header_map).v]

\* the relationship rows with an endpoint that is no integer
UnparsedRows ==
    IF last.op = Manual
    THEN {k \in 1..Len(last.trace) :
            /\ last.trace[k].tipo \in RelTypes
            /\ last.trace[k].row > 0
            /\ \/ NotInteger(EndpointText(k, FromNames))
               \/ NotInteger(EndpointText(k, ToNames))}
    ELSE {}

\* C17: a relationship row with an endpoint that is no integer is skipped: no statement
\* is sent, the graph and the counters stay as they are, and the next row is processed.
C17_UnparsedRowSkipped ==
    \A k \in UnparsedRows :
        /\ last.trace[k].outcome = "invalid"
        /\ last.trace[k].query = "-"
        /\ last.trace[k].graph = Before(k)
        /\ last.trace[k].summary = last.trace[k - 1].summary
        /\ GoesOn(k)

\* C17 witness: the row x;1 of the Persona-Libro file was skipped and the Persona file
\* after it was ingested
C17_Witness ==
    /\ last.op = Manual
    /\ last.batch = <<"PersonaLibroCsv", "PersonaCsv">>
    /\ UnparsedRows = {3}
    /\ last.trace[4].tipo = "Persona"
    /\ last.summary.Persona = 2

\* the node rows of the last ingestion that were written to nodes that existed
MatchedRows ==
    {k \in WrittenRows :
        last.trace[k].touched \subseteq 1..Len(Before(k).nodes[last.trace[k].tipo])}

\* C18: a node row written to an existing node sets the properties of its bag on it (a
\* null of the bag is the property absent), adds no other property and leaves the other
\* properties of the node as they were; every other node and every edge stay as they were.
C18_UpsertFrame ==
    \A k \in MatchedRows :
        LET e == last.trace[k]
            g == Before(k)
        IN  /\ \A i \in e.touched :
                  LET old == g.nodes[e.tipo][i].props
                      new == e.graph.nodes[e.tipo][i].props
                  IN  /\ \A key \in DOMAIN e.bag :
                            IF e.bag[key] = None THEN key \notin DOMAIN new
                            ELSE key \in DOMAIN new /\ new[key] = e.bag[key]
                      /\ \A key \in (DOMAIN old) \ (DOMAIN e.bag) :
                            key \in DOMAIN new /\ new[key] = old[key]
                      /\ DOMAIN new \subseteq (DOMAIN old) \cup (DOMAIN e.bag)
            /\ \A label \in Labels :
                  /\ Len(e.graph.nodes[label]) = Len(g.nodes[label])
                  /\ \A i \in 1..Len(g.nodes[label]) :
                        (label # e.tipo \/ i \notin e.touched)
                            => e.graph.nodes[label][i] = g.nodes[label][i]
            /\ e.graph.edges = g.edges

\* C18 witness: the row x;A;O was written to Persona A, which had csvId 1 and an edge:
\* id is x, tipoLector is O, csvId is still 1, and the edge is still there
C18_Witness ==
    /\ last.op = Manual
    /\ last.batch = <<"PersonaCsv">>
    /\ 3 \in MatchedRows
    /\ EdgeCount(last.pre.edges) >= 1
    /\ \A n \in last.trace[3].after :
          /\ Prop(n, s_csvId) = IntV(1)
          /\ Prop(n, s_id) = StrV(<<"x">>)
          /\ Prop(n, s_tipoLector) = StrV(<<"O">>)

\* each node counter is the number of rows of its type that were written, and Relaciones
\* the number of relationship rows whose statement matched a pair
CountsByRows ==
    /\ \A label \in Labels :
          last.summary[label] = Cardinality({k \in WrittenRows : last.trace[k].tipo = label})
    /\ last.summary.Relaciones =
          Cardinality({k \in QueriedRows : last.trace[k].outcome = "resolved"})

\* C19 as stated: the counters count the rows written and the relationship rows that
\* matched, whether or not anything was created, so the same batch ingested again into
\* the resulting graph gives the same summary.
C19_SummaryRepeats ==
    last.op = Manual =>
        /\ CountsByRows
        /\ Again.raised = last.raised
        /\ Again.summary = last.summary

\* C19 amended: the counters count the rows written and the relationship rows that
\* matched, whether or not anything was created; the same batch ingested again into the
\* resulting graph gives the same summary when no relationship file of the batch comes
\* before a node file of it.
C19_SummaryByRows ==
    last.op = Manual =>
        /\ CountsByRows
        /\ NodeFilesFirst(last.batch) =>
              /\ Again.raised = last.raised
              /\ Again.summary = last.summary

\* C19 witness: the Autor, the Libro and their edge all existed before the batch: nothing
\* was created, and the summary counts one Autor, one Libro and one relationship
C19_Witness ==
    /\ last.op = Manual
    /\ last.batch = <<"AutorCsv", "LibroCsv", "AutorLibroCsv">>
    /\ last.pre = [nodes |-> nodes, edges |-> edges]
    /\ EdgeCount(edges) >= 1
    /\ last.summary = [ZeroSummary EXCEPT !.Autor = 1, !.Libro = 1, !.Relaciones = 1]
    /\ Again.summary = last.summary

(***************************************************************************)
(* _determine_delimiter as a pure function of a bounded content.           *)
(***************************************************************************)
DelimChars == {"a", "\t", ";", ",", "\n", "\r"}

InitDelim ==
    /\ EmptyStore
    /\ last = Idle
    /\ arg \in BoundedSeq(DelimChars, MaxLen)

DetermineDelimiter ==
    /\ last = Idle
    /\ last' = [op |-> "_determine_delimiter", result |-> determine_delimiter(arg)]
    /\ UNCHANGED <<nodes, edges, constraints, arg>>

NextDelim == DetermineDelimiter

SpecDelim == InitDelim /\ [][NextDelim]_vars

\* a character of the first line of c: no line boundary comes before position i
InFirstLine(c, i) == \A j \in 1..i : c[j] \notin LineBreaks
FirstLineHas(c, ch) == \E i \in 1..Len(c) : c[i] = ch /\ InFirstLine(c, i)

\* C6: _determine_delimiter looks only at the first line of the content: it returns
\* tab if that line has a tab, else semicolon if it has one, else comma if it has one,
\* else tab; it returns a value for every content, the empty one included, and never raises.
C6_DelimiterByFirstLine ==
    last.op = "_determine_delimiter" =>
        /\ ~last.result.raised
        /\ last.result.value =
              IF FirstLineHas(arg, "\t") THEN "\t"
              ELSE IF FirstLineHas(arg, ";") THEN ";"
              ELSE IF FirstLineHas(arg, ",") THEN ","
              ELSE "\t"

\* C6 witness: a comma on the first line and a tab on a later line: comma is chosen
C6_Witness ==
    /\ last.op = "_determine_delimiter"
    /\ FirstLineHas(arg, ",")
    /\ ~FirstLineHas(arg, "\t")
    /\ "\t" \in Range(arg)
    /\ last.result.value = ","

(***************************************************************************)
(* The classification as a pure function of a bounded set of normalized    *)
(* headers; a normalized header is its own original.                       *)
(***************************************************************************)
HeaderUniverse ==
    {s_id, s_nombre, s_tipolector, s_idautor, s_nacionalidad, s_idlibro, s_titulo,
     s_genero, s_anno, s_idclub, s_ubicacion, s_tematica, s_autor_id, s_autorid,
     s_libro_id, s_libroid, s_persona_id, s_personaid, s_idpersona, s_club_id,
     s_clubid, s_otro}

RECURSIVE SubsetsUpTo(_, _)
SubsetsUpTo(S, k) ==
    IF k = 0 THEN {{}}
    ELSE LET P == SubsetsUpTo(S, k - 1) IN P \cup {p \cup {x} : p \in P, x \in S}

InitClasif ==
    /\ EmptyStore
    /\ last = Idle
    /\ arg \in SubsetsUpTo(HeaderUniverse, MaxHeaders)

ClassifyHeaders ==
    /\ last = Idle
    /\ last' = [op |-> "classify", result |-> Classify(arg, [h \in arg |-> h])]
    /\ UNCHANGED <<nodes, edges, constraints, arg>>

NextClasif == ClassifyHeaders

SpecClasif == InitClasif /\ [][NextClasif]_vars

\* the signatures in their order: a node signature asks for all of req, a relationship
\* signature for one alias of each endpoint
AutorAliases == {s_idautor, s_autor_id, s_autorid}
LibroAliases == {s_idlibro, s_libro_id, s_libroid}
ClubAliases == {s_idclub, s_club_id, s_clubid}
PersonaAliases == {s_id, s_persona_id, s_personaid, s_idpersona}

Signatures ==
    << [tag |-> "Persona", req |-> {s_id, s_nombre, s_tipolector}, a |-> {}, b |-> {}],
       [tag |-> "Autor", req |-> {s_idautor, s_nombre, s_nacionalidad}, a |-> {}, b |-> {}],
       [tag |-> "Libro", req |-> {s_idlibro, s_titulo, s_genero, s_anno}, a |-> {}, b |-> {}],
       [tag |-> "Club", req |-> {s_idclub, s_nombre, s_ubicacion, s_tematica}, a |-> {}, b |-> {}],
       [tag |-> "Autor->Libro", req |-> {}, a |-> AutorAliases, b |-> LibroAliases],
       [tag |-> "Persona->Libro", req |-> {}, a |-> PersonaAliases, b |-> LibroAliases],
       [tag |-> "Club->Libro", req |-> {}, a |-> ClubAliases, b |-> LibroAliases],
       [tag |-> "Persona->Club", req |-> {}, a |-> PersonaAliases, b |-> ClubAliases] >>

SignatureMatches(sig, H) ==
    IF sig.req # {} THEN sig.req \subseteq H
    ELSE (sig.a \cap H # {}) /\ (sig.b \cap H # {})

FirstSignature(H) ==
    IF \E i \in 1..Len(Signatures) : SignatureMatches(Signatures[i], H)
    THEN Signatures[CHOOSE i \in 1..Len(Signatures) :
                       /\ SignatureMatches(Signatures[i], H)
                       /\ \A j \in 1..(i-1) : ~SignatureMatches(Signatures[j], H)].tag
    ELSE "Unrecognized"

\* C7: the classification of a header set is the first signature that matches, in the
\* order Persona, Autor, Libro, Club (all required headers present), Autor->Libro,
\* Persona->Libro, Club->Libro, Persona->Club (one alias per endpoint), else
\* Unrecognized; so a header set with an author alias, a book alias and `id` that no
\* node signature matches is Autor->Libro, not Persona->Libro.
C7_ClassificationOrder ==
    last.op = "classify" =>
        /\ last.result = FirstSignature(arg)
        /\ ( /\ AutorAliases \cap arg # {}
             /\ LibroAliases \cap arg # {}
             /\ s_id \in arg
             /\ \A i \in 1..4 : ~SignatureMatches(Signatures[i], arg)
             => last.result = "Autor->Libro" )

\* C7 witness: an author alias, a book alias and `id` together, classified Autor->Libro
C7_Witness ==
    /\ last.op = "classify"
    /\ {s_autor_id, s_libroid, s_id} \subseteq arg
    /\ last.result = "Autor->Libro"

====
